---- MODULE Spec2Model ----
(***************************************************************************)
(* Model of core/discriminator.py: the four discriminator modules, their   *)
(* constructors and forward passes, and the __main__ script.               *)
(*                                                                         *)
(* A tensor is a shape together with the buffer that holds its elements.   *)
(* The heap records, for every buffer, the operation that produced it, the *)
(* (buffer, version) pairs it read, and a version counter that every       *)
(* in-place operation on the buffer increments.  A Python exception is the *)
(* err field of a frame; a frame whose err is set skips the rest of the    *)
(* function body.                                                          *)
(***************************************************************************)
EXTENDS Integers, Sequences, FiniteSets, TLC

VARIABLES prog,   \* the entry point being executed ("" before any call)
          net,    \* the constructed nn.Module
          args,   \* the caller's argument tensors
          cfg,    \* the constructor's arguments
          fr,     \* the frame of the running forward: heap, locals, err, ret
          pc      \* position in the entry point's body

vars == <<prog, cfg, net, args, fr, pc>>

----------------------------------------------------------------------------
(* Bounds of the model *)

MaxB == 2
MaxL == 5
MaxC == 2
MaxLayers == 2
MaxD == 2
MaxF == 3

----------------------------------------------------------------------------
(* Values *)

NoTensor == [kind |-> "None", shape |-> <<>>, buf |-> 0]

Tensor(shape, buf) == [kind |-> "Tensor", shape |-> shape, buf |-> buf]

Tuple(items) == [kind |-> "tuple", items |-> items]

\* a reference to the current contents of t's buffer
Ref(heap, t) == <<t.buf, heap[t.buf].ver>>

\* a freshly allocated buffer holding the result of op applied to reads
Alloc(heap, op, reads) == Append(heap, [op |-> op, args |-> reads, ver |-> 0])

Raise(heap, e) == [heap |-> heap, out |-> NoTensor, err |-> e]

Return(heap, t) == [heap |-> heap, out |-> t, err |-> ""]

----------------------------------------------------------------------------
(* Framework operators as this file uses them *)

Conv1d(in_channels, out_channels, kernel_size, stride, padding) ==
  [in_channels |-> in_channels, out_channels |-> out_channels,
   kernel_size |-> kernel_size, stride |-> stride, padding |-> padding]

ConvLen(L, c) == (L + 2 * c.padding - c.kernel_size) \div c.stride + 1

\* weight_norm(Conv1d(...)) applied to t: a new tensor, t is only read
ApplyConv(heap, t, name, c) ==
  IF \/ t.kind # "Tensor"
     \/ Len(t.shape) # 3
  THEN Raise(heap, "RuntimeError")
  ELSE IF \/ t.shape[2] # c.in_channels
          \/ ConvLen(t.shape[3], c) <= 0
  THEN Raise(heap, "RuntimeError")
  ELSE Return(Alloc(heap, name, <<Ref(heap, t)>>),
              Tensor(<<t.shape[1], c.out_channels, ConvLen(t.shape[3], c)>>,
                     Len(heap) + 1))

\* nn.LeakyReLU(0.2, True): inplace, the input's buffer is overwritten
LeakyReLU(heap, t) ==
  Return([heap EXCEPT ![t.buf].ver = @ + 1], t)

BroadcastOK(s, t) ==
  /\ Len(s) = Len(t)
  /\ \A i \in 1..Len(s) : s[i] = t[i] \/ s[i] = 1 \/ t[i] = 1

BroadcastShape(s, t) == [i \in 1..Len(s) |-> IF s[i] = 1 THEN t[i] ELSE s[i]]

\* a + b: a new tensor, both operands are only read
Add(heap, a, b) ==
  IF a.kind # "Tensor" \/ b.kind # "Tensor"
  THEN Raise(heap, "TypeError")
  ELSE IF ~BroadcastOK(a.shape, b.shape)
  THEN Raise(heap, "RuntimeError")
  ELSE Return(Alloc(heap, "add", <<Ref(heap, a), Ref(heap, b)>>),
              Tensor(BroadcastShape(a.shape, b.shape), Len(heap) + 1))

\* nn.Sequential(nn.LeakyReLU(0.2, True), weight_norm(Conv1d(...)))
ActThenConv(heap, t, name, c) ==
  IF t.kind # "Tensor" THEN Raise(heap, "RuntimeError")
  ELSE ApplyConv(LeakyReLU(heap, t).heap, t, name, c)

----------------------------------------------------------------------------
(* Dblock *)

\* a variant whose output_cond emits output_dim channels instead of hidden_dim
DblockCondWidth(input_dim, output_dim, hidden_dim) ==
  [input_spec  |-> Conv1d(input_dim, output_dim, 3, 1, 1),
   input_cond  |-> Conv1d(hidden_dim, output_dim, 3, 1, 1),
   output_spec |-> Conv1d(output_dim, output_dim, 3, 1, 1),
   output_cond |-> Conv1d(output_dim, output_dim, 3, 1, 1)]

Dblock(input_dim, output_dim, hidden_dim) ==
  [input_spec  |-> Conv1d(input_dim, output_dim, 3, 1, 1),
   input_cond  |-> Conv1d(hidden_dim, output_dim, 3, 1, 1),
   output_spec |-> Conv1d(output_dim, output_dim, 3, 1, 1),
   output_cond |-> Conv1d(output_dim, hidden_dim, 3, 1, 1)]

DblockFrame(heap, spec, cond) ==
  [heap |-> heap, err |-> "", ret |-> NoTensor,
   spec |-> spec, cond |-> cond,
   x1 |-> NoTensor, y1 |-> NoTensor, x |-> NoTensor,
   out1 |-> NoTensor, out2 |-> NoTensor]

\* x1 = self.input_spec(spec)
DblockLine23(f, d) ==
  IF f.err # "" THEN f ELSE
  LET r == ApplyConv(f.heap, f.spec, "input_spec", d.input_spec)
  IN  [f EXCEPT !.heap = r.heap, !.err = r.err, !.x1 = r.out]

\* y1 = self.input_cond(cond)
DblockLine24(f, d) ==
  IF f.err # "" THEN f ELSE
  LET r == ApplyConv(f.heap, f.cond, "input_cond", d.input_cond)
  IN  [f EXCEPT !.heap = r.heap, !.err = r.err, !.y1 = r.out]

\* a variant that accumulates in place: x1 += y1; x = x1
DblockLine25InPlace(f, d) ==
  IF f.err # "" THEN f ELSE
  LET r == Add(f.heap, f.x1, f.y1)
  IN  IF r.err # "" THEN [f EXCEPT !.err = r.err]
      ELSE [f EXCEPT !.heap = [f.heap EXCEPT ![f.x1.buf].ver = @ + 1],
                     !.x = f.x1]

\* x = x1 + y1
DblockLine25(f, d) ==
  IF f.err # "" THEN f ELSE
  LET r == Add(f.heap, f.x1, f.y1)
  IN  [f EXCEPT !.heap = r.heap, !.err = r.err, !.x = r.out]

\* out1 = self.output_spec(x)
DblockLine26(f, d) ==
  IF f.err # "" THEN f ELSE
  LET r == ActThenConv(f.heap, f.x, "output_spec", d.output_spec)
  IN  [f EXCEPT !.heap = r.heap, !.err = r.err, !.out1 = r.out]

\* out2 = self.output_cond(y1)
DblockLine27(f, d) ==
  IF f.err # "" THEN f ELSE
  LET r == ActThenConv(f.heap, f.y1, "output_cond", d.output_cond)
  IN  [f EXCEPT !.heap = r.heap, !.err = r.err, !.out2 = r.out]

\* return out1 + x1, out2 + cond
DblockLine28(f, d) ==
  IF f.err # "" THEN f ELSE
  LET a == Add(f.heap, f.out1, f.x1)
      b == Add(a.heap, f.out2, f.cond)
  IN  IF a.err # "" THEN [f EXCEPT !.heap = a.heap, !.err = a.err]
      ELSE IF b.err # "" THEN [f EXCEPT !.heap = b.heap, !.err = b.err]
      ELSE [f EXCEPT !.heap = b.heap, !.ret = Tuple(<<a.out, b.out>>)]

DblockForward(heap, spec, cond, d) ==
  DblockLine28(DblockLine27(DblockLine26(DblockLine25(DblockLine24(
    DblockLine23(DblockFrame(heap, spec, cond), d), d), d), d), d), d)

----------------------------------------------------------------------------
(* MSGDiscriminator *)

\* a variant of the loop that does not update nf
RECURSIVE MSGLayersNoUpdate(_, _, _, _)
MSGLayersNoUpdate(nf, n, n_layers, hidden_dim) ==
  IF n > n_layers THEN [layers |-> <<>>, nf |-> nf]
  ELSE LET rest == MSGLayersNoUpdate(nf, n + 1, n_layers, hidden_dim)
       IN  [layers |-> <<Dblock(nf, nf * 2, hidden_dim)>> \o rest.layers,
            nf |-> rest.nf]

\* the loop of __init__: layer_n = Dblock(nf, nf*2, hidden_dim); nf = nf * 2
RECURSIVE MSGLayers(_, _, _, _)
MSGLayers(nf, n, n_layers, hidden_dim) ==
  IF n > n_layers THEN [layers |-> <<>>, nf |-> nf]
  ELSE LET rest == MSGLayers(nf * 2, n + 1, n_layers, hidden_dim)
       IN  [layers |-> <<Dblock(nf, nf * 2, hidden_dim)>> \o rest.layers,
            nf |-> rest.nf]

MSGDiscriminator(nf, n_layers, hidden_dim) ==
  LET built == MSGLayers(nf, 1, n_layers, hidden_dim)
  IN  [discriminator |-> built.layers,
       disc_spec |-> Conv1d(built.nf, 1, 3, 1, 1),
       disc_cond |-> Conv1d(hidden_dim, 1, 3, 1, 1)]

MSGFrame(heap, x, y) ==
  [heap |-> heap, err |-> "", ret |-> NoTensor,
   x |-> x, y |-> y, features |-> <<>>, n |-> 0]

\* one iteration of the loop: x, y = module(x, y); features.append(x)
MSGLoopBody(f, m) ==
  IF f.err # "" THEN f ELSE
  LET r == DblockForward(f.heap, f.x, f.y, m.discriminator[f.n + 1])
  IN  IF r.err # "" THEN [f EXCEPT !.heap = r.heap, !.err = r.err]
      ELSE [f EXCEPT !.heap = r.heap,
                     !.x = r.ret.items[1],
                     !.y = r.ret.items[2],
                     !.features = Append(@, r.ret.items[1]),
                     !.n = @ + 1]

RECURSIVE Product(_, _)
Product(s, i) == IF i > Len(s) THEN 1 ELSE s[i] * Product(s, i + 1)

\* torch.flatten(t, 1, -1): a view of t's buffer
Flatten(t) == Tensor(<<t.shape[1], Product(t.shape, 2)>>, t.buf)

\* out = self.disc_spec(x) + self.disc_cond(y); features.append(out)
\* return features[:-1], torch.flatten(features[-1], 1, -1)
MSGTail(f, m) ==
  IF f.err # "" THEN f ELSE
  LET a == ApplyConv(f.heap, f.x, "disc_spec", m.disc_spec)
      b == ApplyConv(a.heap, f.y, "disc_cond", m.disc_cond)
      o == Add(b.heap, a.out, b.out)
      features == Append(f.features, o.out)
  IN  IF a.err # "" THEN [f EXCEPT !.heap = a.heap, !.err = a.err]
      ELSE IF b.err # "" THEN [f EXCEPT !.heap = b.heap, !.err = b.err]
      ELSE IF o.err # "" THEN [f EXCEPT !.heap = o.heap, !.err = o.err]
      ELSE [f EXCEPT !.heap = o.heap,
                     !.features = features,
                     !.ret = Tuple(<<SubSeq(features, 1, Len(features) - 1),
                                     Flatten(features[Len(features)])>>)]

RECURSIVE MSGLoop(_, _)
MSGLoop(f, m) ==
  IF f.err # "" \/ f.n >= Len(m.discriminator) THEN f
  ELSE MSGLoop(MSGLoopBody(f, m), m)

MSGForward(heap, x, y, m) == MSGTail(MSGLoop(MSGFrame(heap, x, y), m), m)

\* nn.Module.__call__(*inputs) on an MSGDiscriminator: forward takes (x, y)
MSGCall(heap, inputs, m) ==
  IF Len(inputs) # 2
  THEN [MSGFrame(heap, NoTensor, NoTensor) EXCEPT !.err = "TypeError"]
  ELSE MSGForward(heap, inputs[1], inputs[2], m)

----------------------------------------------------------------------------
(* MultiMSGDiscriminator and MultiScaleDiscriminator *)

AvgPool1d(kernel_size, stride, padding) ==
  [kernel_size |-> kernel_size, stride |-> stride, padding |-> padding]

PoolLen(L, p) == (L + 2 * p.padding - p.kernel_size) \div p.stride + 1

\* self.downsample(t): a new tensor, t is only read
Downsample(heap, t, p) ==
  IF t.kind # "Tensor" \/ Len(t.shape) # 3
  THEN Raise(heap, "RuntimeError")
  ELSE IF \/ p.padding > p.kernel_size \div 2
          \/ PoolLen(t.shape[3], p) <= 0
  THEN Raise(heap, "RuntimeError")
  ELSE Return(Alloc(heap, "downsample", <<Ref(heap, t)>>),
              Tensor(<<t.shape[1], t.shape[2], PoolLen(t.shape[3], p)>>,
                     Len(heap) + 1))

\* the model ModuleDict: disc_0 .. disc_{num_D-1}, all built alike
MultiModel(num_D, ndf, n_layers, hidden_dim) ==
  [i \in 1..num_D |-> MSGDiscriminator(ndf, n_layers, hidden_dim)]

\* a variant whose pool has no padding
MultiMSGDiscriminatorUnpadded(num_D, ndf, n_layers, downsampling_factor, hidden_dim) ==
  [model |-> MultiModel(num_D, ndf, n_layers, hidden_dim),
   downsample |-> AvgPool1d(downsampling_factor, 2, 0)]

MultiMSGDiscriminator(num_D, ndf, n_layers, downsampling_factor, hidden_dim) ==
  [model |-> MultiModel(num_D, ndf, n_layers, hidden_dim),
   downsample |-> AvgPool1d(downsampling_factor, 2, 1)]

MultiScaleDiscriminator(num_D, ndf, n_layers, downsampling_factor, hidden_dim) ==
  [model |-> MultiModel(num_D, ndf, n_layers, hidden_dim),
   downsample |-> AvgPool1d(downsampling_factor, 2, 1)]

MultiFrame(heap, x, y) ==
  [heap |-> heap, err |-> "", ret |-> NoTensor,
   x |-> x, y |-> y, outputs |-> <<>>, features |-> <<>>]

\* a variant of the iteration that downsamples before calling disc
MultiMSGLoopBodyPoolFirst(f, m) ==
  IF f.err # "" THEN f ELSE
  LET dx == Downsample(f.heap, f.x, m.downsample)
      dy == Downsample(dx.heap, f.y, m.downsample)
      r  == MSGCall(dy.heap, <<dx.out, dy.out>>, m.model[Len(f.outputs) + 1])
  IN  IF dx.err # "" THEN [f EXCEPT !.err = dx.err]
      ELSE IF dy.err # "" THEN [f EXCEPT !.err = dy.err]
      ELSE IF r.err # "" THEN [f EXCEPT !.heap = r.heap, !.err = r.err]
      ELSE [f EXCEPT !.heap = r.heap,
                     !.outputs = Append(@, r.ret.items[2]),
                     !.features = Append(@, r.ret.items[1]),
                     !.x = dx.out, !.y = dy.out]

\* MultiMSGDiscriminator.forward, one iteration:
\* feats, out = disc(x, y); outputs.append(out); features.append(feats)
\* x = self.downsample(x); y = self.downsample(y)
MultiMSGLoopBody(f, m) ==
  IF f.err # "" THEN f ELSE
  LET r  == MSGCall(f.heap, <<f.x, f.y>>, m.model[Len(f.outputs) + 1])
      dx == Downsample(r.heap, f.x, m.downsample)
      dy == Downsample(dx.heap, f.y, m.downsample)
  IN  IF r.err # "" THEN [f EXCEPT !.heap = r.heap, !.err = r.err]
      ELSE IF dx.err # ""
      THEN [f EXCEPT !.heap = dx.heap, !.err = dx.err,
                     !.outputs = Append(@, r.ret.items[2]),
                     !.features = Append(@, r.ret.items[1])]
      ELSE IF dy.err # ""
      THEN [f EXCEPT !.heap = dy.heap, !.err = dy.err,
                     !.outputs = Append(@, r.ret.items[2]),
                     !.features = Append(@, r.ret.items[1]),
                     !.x = dx.out]
      ELSE [f EXCEPT !.heap = dy.heap,
                     !.outputs = Append(@, r.ret.items[2]),
                     !.features = Append(@, r.ret.items[1]),
                     !.x = dx.out, !.y = dy.out]

\* MultiScaleDiscriminator.forward, one iteration:
\* feats, out = disc(x); outputs.append(out); features.append(feats)
\* x = self.downsample(x)
MultiScaleLoopBody(f, m) ==
  IF f.err # "" THEN f ELSE
  LET r  == MSGCall(f.heap, <<f.x>>, m.model[Len(f.outputs) + 1])
      dx == Downsample(r.heap, f.x, m.downsample)
  IN  IF r.err # "" THEN [f EXCEPT !.heap = r.heap, !.err = r.err]
      ELSE IF dx.err # ""
      THEN [f EXCEPT !.heap = dx.heap, !.err = dx.err,
                     !.outputs = Append(@, r.ret.items[2]),
                     !.features = Append(@, r.ret.items[1])]
      ELSE [f EXCEPT !.heap = dx.heap,
                     !.outputs = Append(@, r.ret.items[2]),
                     !.features = Append(@, r.ret.items[1]),
                     !.x = dx.out]

\* return features, outputs
MultiReturn(f) ==
  IF f.err # "" THEN f
  ELSE [f EXCEPT !.ret = Tuple(<<f.features, f.outputs>>)]

----------------------------------------------------------------------------
(* MelGANDiscriminator *)

Layer(conv, act) == [conv |-> conv, act |-> act]

\* a variant of the loop that doubles nf at every layer
RECURSIVE MelGANLayersDoubling(_, _, _)
MelGANLayersDoubling(nf, n, n_layers) ==
  IF n > n_layers THEN [layers |-> <<>>, nf |-> nf]
  ELSE LET rest == MelGANLayersDoubling(nf * 2, n + 1, n_layers)
       IN  [layers |-> <<[conv |-> Conv1d(nf, nf * 2, 3, 2, 1), act |-> TRUE]>>
                         \o rest.layers,
            nf |-> rest.nf]

\* the loop of __init__: nf_prev = nf; layer_n = Conv1d(nf_prev, nf, 3, 2, 1)
RECURSIVE MelGANLayers(_, _, _)
MelGANLayers(nf, n, n_layers) ==
  IF n > n_layers THEN [layers |-> <<>>, nf |-> nf]
  ELSE LET nf_prev == nf
           rest == MelGANLayers(nf, n + 1, n_layers)
       IN  [layers |-> <<Layer(Conv1d(nf_prev, nf, 3, 2, 1), TRUE)>>
                         \o rest.layers,
            nf |-> rest.nf]

Min(a, b) == IF a < b THEN a ELSE b

MelGANDiscriminator(input_dim, ndf, n_layers, disc_out) ==
  LET built == MelGANLayers(ndf, 1, n_layers)
      nf == Min(built.nf * 2, disc_out)
  IN  [discriminator |->
         <<Layer(Conv1d(input_dim, ndf, 3, 1, 0), TRUE)>>
         \o built.layers
         \o <<Layer(Conv1d(nf, disc_out, 3, 1, 2), TRUE)>>
         \o <<Layer(Conv1d(nf, 1, 3, 1, 1), FALSE)>>]

MelGANFrame(heap, x) ==
  [heap |-> heap, err |-> "", ret |-> NoTensor, x |-> x, features |-> <<>>]

\* a layer of the ModuleDict applied to t: the convolution, then (except in
\* the last layer) the in-place activation of the convolution's output
ApplyLayer(heap, t, name, l) ==
  LET c == ApplyConv(heap, t, name, l.conv)
  IN  IF c.err # "" \/ ~l.act THEN c
      ELSE LeakyReLU(c.heap, c.out)

\* one iteration of the loop: x = module(x); features.append(x)
MelGANLoopBody(f, m) ==
  IF f.err # "" THEN f ELSE
  LET r == ApplyLayer(f.heap, f.x, "layer", m.discriminator[Len(f.features) + 1])
  IN  IF r.err # "" THEN [f EXCEPT !.heap = r.heap, !.err = r.err]
      ELSE [f EXCEPT !.heap = r.heap, !.x = r.out,
                     !.features = Append(@, r.out)]

\* return features[:-1], features[-1]
MelGANReturn(f) ==
  IF f.err # "" THEN f
  ELSE IF Len(f.features) = 0 THEN [f EXCEPT !.err = "IndexError"]
  ELSE [f EXCEPT !.ret = Tuple(<<SubSeq(f.features, 1, Len(f.features) - 1),
                                 f.features[Len(f.features)]>>)]

----------------------------------------------------------------------------
(* __main__ *)

\* numel of the trainable parameters of weight_norm(Conv1d): g, v and bias
ConvParams(c) ==
  c.out_channels + c.out_channels * c.in_channels * c.kernel_size + c.out_channels

DblockParams(d) ==
  ConvParams(d.input_spec) + ConvParams(d.input_cond)
  + ConvParams(d.output_spec) + ConvParams(d.output_cond)

\* v.shape
GetShape(v) ==
  IF v.kind = "Tensor" THEN [err |-> "", shape |-> v.shape]
  ELSE [err |-> "AttributeError", shape |-> <<>>]

----------------------------------------------------------------------------
(* Constructor arguments and inputs *)

Dims == 1..MaxC
Batches == 1..MaxB
Lens == 1..MaxL
LayerCounts == 0..MaxLayers
DiscCounts == 0..MaxD
Factors == 1..MaxF
DiscOuts == 1..(2 * MaxC + 1)

\* the defaults of the constructors' signatures
DefaultHiddenDim == 256
DefaultNf == 80
DefaultNLayers == 4
DefaultNumD == 3
DefaultFactor == 2
DefaultNdf == 16
DefaultMelGANLayers == 3
DefaultDiscOut == 512

MSGConfigs ==
  [nf : Dims, n_layers : LayerCounts, hidden_dim : Dims]
  \cup {[nf |-> DefaultNf, n_layers |-> DefaultNLayers,
         hidden_dim |-> DefaultHiddenDim]}

MultiConfigs ==
  [num_D : DiscCounts, ndf : Dims, n_layers : LayerCounts,
   downsampling_factor : Factors, hidden_dim : Dims]
  \cup {[num_D |-> DefaultNumD, ndf |-> DefaultNf, n_layers |-> DefaultNLayers,
         downsampling_factor |-> DefaultFactor, hidden_dim |-> DefaultHiddenDim]}

MelGANConfigs ==
  [input_dim : Dims, ndf : Dims, n_layers : LayerCounts, disc_out : DiscOuts]
  \cup [input_dim : Dims, ndf : {DefaultNdf}, n_layers : {DefaultMelGANLayers},
        disc_out : {DefaultDiscOut}]

\* shapes of an (x, y) pair for a module expecting c and h channels: the
\* well-shaped pairs, and pairs off by a channel or a length
InputPairs(c, h) ==
  {<<(<<b, cx, l>>), (<<b, cy, IF same THEN l ELSE (l % MaxL) + 1>>)>> :
     b \in Batches, l \in Lens, cx \in {c, c + 1}, cy \in {h, h + 1},
     same \in BOOLEAN}

Inputs(c) == {<<b, cx, l>> : b \in Batches, l \in Lens, cx \in {c, c + 1}}

InputCell == [op |-> "input", args |-> <<>>, ver |-> 0]

----------------------------------------------------------------------------
(* The state machine: an entry point is called once and runs to its end *)

NoFrame == [heap |-> <<>>, err |-> "", ret |-> NoTensor]

Init ==
  /\ prog = ""
  /\ cfg = <<>>
  /\ net = <<>>
  /\ args = <<>>
  /\ fr = NoFrame
  /\ pc = "idle"

\* the position after a step that produced frame f
Goto(f, next) == IF f.err # "" THEN "raised" ELSE next

Enter(p, c, m, a, f, at) ==
  /\ prog' = p
  /\ cfg' = c
  /\ net' = m
  /\ args' = a
  /\ fr' = f
  /\ pc' = at

At(p, at) == prog = p /\ pc = at

Do(f, next) ==
  /\ fr' = f
  /\ pc' = Goto(f, next)
  /\ UNCHANGED <<prog, cfg, net, args>>

\* Dblock(input_dim, output_dim, hidden_dim)(spec, cond); cond may be the
\* very tensor passed as spec
CallDblock ==
  /\ pc = "idle"
  /\ \E input_dim \in Dims, output_dim \in Dims, hidden_dim \in Dims :
     \E sh \in InputPairs(input_dim, hidden_dim), alias \in BOOLEAN :
       /\ alias => sh[1] = sh[2]
       /\ LET spec == Tensor(sh[1], 1)
              cond == Tensor(sh[2], IF alias THEN 1 ELSE 2)
              heap == IF alias THEN <<InputCell>> ELSE <<InputCell, InputCell>>
          IN  Enter("Dblock",
                    [input_dim |-> input_dim, output_dim |-> output_dim,
                     hidden_dim |-> hidden_dim],
                    Dblock(input_dim, output_dim, hidden_dim),
                    <<spec, cond>>, DblockFrame(heap, spec, cond), "L23")

Dblock_L23 ==
  /\ At("Dblock", "L23")
  /\ Do(DblockLine23(fr, net), "L24")
Dblock_L24 ==
  /\ At("Dblock", "L24")
  /\ Do(DblockLine24(fr, net), "L25")
Dblock_L25 ==
  /\ At("Dblock", "L25")
  /\ Do(DblockLine25(fr, net), "L26")
Dblock_L26 ==
  /\ At("Dblock", "L26")
  /\ Do(DblockLine26(fr, net), "L27")
Dblock_L27 ==
  /\ At("Dblock", "L27")
  /\ Do(DblockLine27(fr, net), "L28")
Dblock_L28 ==
  /\ At("Dblock", "L28")
  /\ Do(DblockLine28(fr, net), "done")

\* MSGDiscriminator(nf, n_layers, hidden_dim)(x, y)
CallMSG ==
  /\ pc = "idle"
  /\ \E c \in MSGConfigs :
     \E sh \in InputPairs(c.nf, c.hidden_dim) :
       LET x == Tensor(sh[1], 1)
           y == Tensor(sh[2], 2)
       IN  Enter("MSGDiscriminator", c,
                 MSGDiscriminator(c.nf, c.n_layers, c.hidden_dim),
                 <<x, y>>, MSGFrame(<<InputCell, InputCell>>, x, y), "L55")

MSG_Loop ==
  /\ At("MSGDiscriminator", "L55")
  /\ fr.n < Len(net.discriminator)
  /\ Do(MSGLoopBody(fr, net), "L55")

MSG_Tail ==
  /\ At("MSGDiscriminator", "L55")
  /\ fr.n >= Len(net.discriminator)
  /\ Do(MSGTail(fr, net), "done")

\* MultiMSGDiscriminator(num_D, ndf, n_layers, downsampling_factor, hidden_dim)(x, y)
CallMultiMSG ==
  /\ pc = "idle"
  /\ \E c \in MultiConfigs :
     \E sh \in InputPairs(c.ndf, c.hidden_dim) :
       LET x == Tensor(sh[1], 1)
           y == Tensor(sh[2], 2)
       IN  Enter("MultiMSGDiscriminator", c,
                 MultiMSGDiscriminator(c.num_D, c.ndf, c.n_layers,
                                       c.downsampling_factor, c.hidden_dim),
                 <<x, y>>, MultiFrame(<<InputCell, InputCell>>, x, y), "L78")

MultiMSG_Loop ==
  /\ At("MultiMSGDiscriminator", "L78")
  /\ Len(fr.outputs) < Len(net.model)
  /\ Do(MultiMSGLoopBody(fr, net), "L78")

MultiMSG_Return ==
  /\ At("MultiMSGDiscriminator", "L78")
  /\ Len(fr.outputs) >= Len(net.model)
  /\ Do(MultiReturn(fr), "done")

\* MelGANDiscriminator(input_dim, ndf, n_layers, disc_out)(x)
CallMelGAN ==
  /\ pc = "idle"
  /\ \E c \in MelGANConfigs :
     \E sh \in Inputs(c.input_dim) :
       LET x == Tensor(sh, 1)
       IN  Enter("MelGANDiscriminator", c,
                 MelGANDiscriminator(c.input_dim, c.ndf, c.n_layers, c.disc_out),
                 <<x>>, MelGANFrame(<<InputCell>>, x), "L129")

MelGAN_Loop ==
  /\ At("MelGANDiscriminator", "L129")
  /\ Len(fr.features) < Len(net.discriminator)
  /\ Do(MelGANLoopBody(fr, net), "L129")

MelGAN_Return ==
  /\ At("MelGANDiscriminator", "L129")
  /\ Len(fr.features) >= Len(net.discriminator)
  /\ Do(MelGANReturn(fr), "done")

\* MultiScaleDiscriminator(num_D, ndf, n_layers, downsampling_factor, hidden_dim)(x)
CallMultiScale ==
  /\ pc = "idle"
  /\ \E c \in MultiConfigs :
     \E sh \in Inputs(c.ndf) :
       LET x == Tensor(sh, 1)
       IN  Enter("MultiScaleDiscriminator", c,
                 MultiScaleDiscriminator(c.num_D, c.ndf, c.n_layers,
                                         c.downsampling_factor, c.hidden_dim),
                 <<x>>, MultiFrame(<<InputCell>>, x, NoTensor), "L150")

MultiScale_Loop ==
  /\ At("MultiScaleDiscriminator", "L150")
  /\ Len(fr.outputs) < Len(net.model)
  /\ Do(MultiScaleLoopBody(fr, net), "L150")

MultiScale_Return ==
  /\ At("MultiScaleDiscriminator", "L150")
  /\ Len(fr.outputs) >= Len(net.model)
  /\ Do(MultiReturn(fr), "done")

\* python discriminator.py: model = Dblock(80, 160); x = torch.randn(4, 80, 300)
\* cond = torch.ones(4, 256, 300); print(x.shape)
RunMain ==
  /\ pc = "idle"
  /\ LET x == Tensor(<<4, 80, 300>>, 1)
         cond == Tensor(<<4, 256, 300>>, 2)
     IN  Enter("main",
               [input_dim |-> 80, output_dim |-> 160, hidden_dim |-> DefaultHiddenDim],
               Dblock(80, 160, DefaultHiddenDim),
               <<x, cond>>,
               [heap |-> <<InputCell, InputCell>>, err |-> "", ret |-> NoTensor,
                out |-> NoTensor, printed |-> <<x.shape>>],
               "L167")

\* out = model(x, cond)
MainLine167(f, d) ==
  LET r == DblockForward(f.heap, args[1], args[2], d)
  IN  [f EXCEPT !.heap = r.heap, !.err = r.err, !.out = r.ret]

\* print("Shape of output :", out.shape); print(pytorch_total_params)
MainLine168(f, d) ==
  LET s == GetShape(f.out)
  IN  IF s.err # "" THEN [f EXCEPT !.err = s.err]
      ELSE [f EXCEPT !.printed = @ \o <<s.shape, DblockParams(d)>>]

Main_L167 ==
  /\ At("main", "L167")
  /\ Do(MainLine167(fr, net), "L168")

Main_L168 ==
  /\ At("main", "L168")
  /\ Do(MainLine168(fr, net), "done")

Next ==
  \/ CallDblock \/ Dblock_L23 \/ Dblock_L24 \/ Dblock_L25
  \/ Dblock_L26 \/ Dblock_L27 \/ Dblock_L28
  \/ CallMSG \/ MSG_Loop \/ MSG_Tail
  \/ CallMultiMSG \/ MultiMSG_Loop \/ MultiMSG_Return
  \/ CallMelGAN \/ MelGAN_Loop \/ MelGAN_Return
  \/ CallMultiScale \/ MultiScale_Loop \/ MultiScale_Return
  \/ RunMain \/ Main_L167 \/ Main_L168

Spec == Init /\ [][Next]_vars

----------------------------------------------------------------------------
(* Vocabulary of the properties *)

Done == pc = "done"
Raised == pc = "raised"
Terminal == Done \/ Raised

Assigned(t) == t.kind = "Tensor"

\* the version counter of t's buffer: 0 until an in-place operation hits it
Version(t) == fr.heap[t.buf].ver

\* what the buffer of t was computed from
Reads(t) == fr.heap[t.buf].args

ShapeIs(t, b, c, l) ==
  /\ Len(t.shape) = 3
  /\ t.shape[1] = b /\ t.shape[2] = c /\ t.shape[3] = l

\* the two arguments are (B, c, L) and (B, h, L)
WellShaped2(c, h) ==
  /\ args[1].shape[2] = c
  /\ args[2].shape[2] = h
  /\ args[2].shape[1] = args[1].shape[1]
  /\ args[2].shape[3] = args[1].shape[3]

B0 == args[1].shape[1]
L0 == args[1].shape[3]

RECURSIVE Pow2(_)
Pow2(k) == IF k = 0 THEN 1 ELSE 2 * Pow2(k - 1)

----------------------------------------------------------------------------
(* C1 *)

\* C1: Dblock.forward on spec (B, input_dim, L) and cond (B, hidden_dim, L)
\* never raises; every convolution keeps the length L (x1, y1, x and out1 are
\* (B, output_dim, L), out2 is (B, hidden_dim, L)), so each of the three
\* additions is between identical shapes, and the returned pair is
\* ((B, output_dim, L), (B, hidden_dim, L)).  The same holds of the call made
\* by the __main__ script.
C1_DblockShapes ==
  /\ (prog = "Dblock" /\ WellShaped2(cfg.input_dim, cfg.hidden_dim)) =>
       /\ ~Raised
       /\ \A t \in {fr.x1, fr.y1, fr.x, fr.out1} :
            Assigned(t) => ShapeIs(t, B0, cfg.output_dim, L0)
       /\ Assigned(fr.out2) => ShapeIs(fr.out2, B0, cfg.hidden_dim, L0)
       /\ pc = "L25" => fr.x1.shape = fr.y1.shape
       /\ pc = "L28" => /\ fr.out1.shape = fr.x1.shape
                        /\ fr.out2.shape = fr.cond.shape
       /\ Done => /\ fr.ret.kind = "tuple"
                  /\ Len(fr.ret.items) = 2
                  /\ ShapeIs(fr.ret.items[1], B0, cfg.output_dim, L0)
                  /\ ShapeIs(fr.ret.items[2], B0, cfg.hidden_dim, L0)
  /\ (prog = "main" /\ pc = "L168") =>
       /\ ShapeIs(fr.out.items[1], 4, 160, 300)
       /\ ShapeIs(fr.out.items[2], 4, 256, 300)

C1_Witness ==
  /\ prog = "Dblock" /\ Done
  /\ WellShaped2(cfg.input_dim, cfg.hidden_dim)
  /\ B0 > 1 /\ L0 > 1
  /\ cfg.output_dim # cfg.input_dim /\ cfg.output_dim # cfg.hidden_dim

----------------------------------------------------------------------------
(* C2 *)

\* C2 (as claimed): a default-constructed MSGDiscriminator, given well-shaped
\* x and y, returns (features, score) with exactly 6 feature tensors, the
\* score's buffer not being one of them.
C2_SixFeatures ==
  (/\ prog = "MSGDiscriminator"
   /\ cfg.nf = DefaultNf /\ cfg.n_layers = DefaultNLayers
   /\ cfg.hidden_dim = DefaultHiddenDim
   /\ WellShaped2(cfg.nf, cfg.hidden_dim)
   /\ Terminal) =>
     /\ Done
     /\ Len(fr.ret.items[1]) = 6
     /\ \A i \in 1..Len(fr.ret.items[1]) :
          fr.ret.items[1][i].buf # fr.ret.items[2].buf

----------------------------------------------------------------------------
(* C3 *)

\* C3 (as claimed): a MelGANDiscriminator with the default ndf, n_layers and
\* disc_out, given x of shape (B, input_dim, L) with L >= 3, runs through all
\* its layers without an error and returns (features, score) with 6 features,
\* score being the output of the last layer.
C3_MelGANDefaultReturns ==
  (/\ prog = "MelGANDiscriminator"
   /\ cfg.ndf = DefaultNdf /\ cfg.n_layers = DefaultMelGANLayers
   /\ cfg.disc_out = DefaultDiscOut
   /\ args[1].shape[2] = cfg.input_dim /\ L0 >= 3
   /\ Terminal) =>
     /\ Done
     /\ Len(fr.ret.items[1]) = 6
     /\ fr.ret.items[2] = fr.x

----------------------------------------------------------------------------
(* C4 *)

\* the shape of s after i applications of the pool p
RECURSIVE PoolTimes(_, _, _)
PoolTimes(s, i, p) ==
  IF i = 0 THEN s
  ELSE LET t == PoolTimes(s, i - 1, p)
       IN  <<t[1], t[2], PoolLen(t[3], p)>>

Shapes(ts) == [i \in 1..Len(ts) |-> ts[i].shape]

\* disc_{i-1} applied to the arguments downsampled i - 1 times
ScaleResult(i) ==
  MSGForward(<<InputCell, InputCell>>,
             Tensor(PoolTimes(args[1].shape, i - 1, net.downsample), 1),
             Tensor(PoolTimes(args[2].shape, i - 1, net.downsample), 2),
             net.model[i])

\* the caller's buffers b's contents were computed from, each with the number
\* of downsample steps on the way
RECURSIVE Provenance(_, _)
Provenance(heap, b) ==
  IF heap[b].op = "input" THEN {<<b, 0>>}
  ELSE LET from == UNION {Provenance(heap, heap[b].args[r][1]) :
                            r \in 1..Len(heap[b].args)}
       IN  IF heap[b].op = "downsample"
           THEN {<<p[1], p[2] + 1>> : p \in from}
           ELSE from

\* C4: MultiMSGDiscriminator.forward keeps features and outputs in step, one
\* entry per discriminator visited; entry i holds what disc_{i-1} yields on x
\* and y downsampled exactly i - 1 times (it has those shapes, and each of its
\* tensors was computed from both arguments through exactly i - 1 pools); on return both lists have num_D
\* entries and the tensors of the last downsample were read by nothing.  With
\* the default pool and well-shaped arguments the call does return.
C4_MultiMSGEntries ==
  prog = "MultiMSGDiscriminator" =>
    /\ Len(fr.features) = Len(fr.outputs)
    /\ Len(fr.outputs) <= cfg.num_D
    /\ \A i \in 1..Len(fr.outputs) :
         /\ ScaleResult(i).err = ""
         /\ Shapes(fr.features[i]) = Shapes(ScaleResult(i).ret.items[1])
         /\ fr.outputs[i].shape = ScaleResult(i).ret.items[2].shape
         /\ \A t \in {fr.outputs[i]} \cup {fr.features[i][j] : j \in 1..Len(fr.features[i])} :
              Provenance(fr.heap, t.buf) = {<<args[1].buf, i - 1>>, <<args[2].buf, i - 1>>}
    /\ Done =>
         /\ fr.ret.kind = "tuple"
         /\ fr.ret.items = <<fr.features, fr.outputs>>
         /\ Len(fr.ret.items[1]) = cfg.num_D
         /\ Len(fr.ret.items[2]) = cfg.num_D
         /\ cfg.num_D >= 1 =>
              \A k \in 1..Len(fr.heap) :
                \A r \in 1..Len(fr.heap[k].args) :
                  fr.heap[k].args[r][1] \notin {fr.x.buf, fr.y.buf}
    /\ (/\ cfg.downsampling_factor = DefaultFactor
        /\ WellShaped2(cfg.ndf, cfg.hidden_dim)) => ~Raised

C4_Witness ==
  /\ prog = "MultiMSGDiscriminator" /\ Done
  /\ cfg.num_D = DefaultNumD /\ cfg.n_layers = DefaultNLayers
  /\ L0 >= 3
  /\ Len(fr.ret.items[1]) = 3
  /\ fr.outputs[3].shape[2] < fr.outputs[1].shape[2]

----------------------------------------------------------------------------
(* C5 *)

\* C5 (as claimed): MultiScaleDiscriminator.forward(x) with num_D >= 1 and a
\* well-shaped x completes without raising and returns num_D entries in each
\* of features and outputs.
C5_MultiScaleReturns ==
  (/\ prog = "MultiScaleDiscriminator"
   /\ cfg.num_D >= 1
   /\ cfg.downsampling_factor = DefaultFactor
   /\ args[1].shape[2] = cfg.ndf
   /\ Terminal) =>
     /\ Done
     /\ Len(fr.ret.items[1]) = cfg.num_D
     /\ Len(fr.ret.items[2]) = cfg.num_D

----------------------------------------------------------------------------
(* C6 *)

CeilDiv(a, b) == (a + b - 1) \div b

\* the length after i pools, were each pool to give ceil(L / 2)
RECURSIVE CeilHalved(_, _)
CeilHalved(L, i) == IF i = 0 THEN L ELSE CeilDiv(CeilHalved(L, i - 1), 2)

\* the length after i pools, each giving floor(L / 2) + 1
RECURSIVE FloorHalvedPlusOne(_, _)
FloorHalvedPlusOne(L, i) ==
  IF i = 0 THEN L ELSE FloorHalvedPlusOne(L, i - 1) \div 2 + 1

DefaultPoolWellShaped ==
  /\ prog = "MultiMSGDiscriminator"
  /\ cfg.downsampling_factor = DefaultFactor
  /\ WellShaped2(cfg.ndf, cfg.hidden_dim)

\* the sequence length discriminator i worked on, read off its score (B, L_i)
ScaleLen(i) == fr.outputs[i].shape[2]

\* C6 (as claimed): with the default pool, the discriminator at scale i works
\* on length ceil(L / 2^i) and the length strictly decreases from one scale
\* to the next while it exceeds 1.
C6_CeilHalving ==
  DefaultPoolWellShaped =>
    /\ \A i \in 1..Len(fr.outputs) : ScaleLen(i) = CeilDiv(L0, Pow2(i - 1))
    /\ \A i \in 1..(Len(fr.outputs) - 1) :
         ScaleLen(i) > 1 => ScaleLen(i + 1) < ScaleLen(i)

\* C6 (amended): with the default pool each downsample maps length L to
\* floor(L / 2) + 1, so the discriminator at scale i works on the i-fold
\* image of L under that map, and the length strictly decreases from one
\* scale to the next while it exceeds 2 (lengths 1 and 2 are fixed points).
C6_FloorHalvingPlusOne ==
  DefaultPoolWellShaped =>
    /\ \A i \in 1..Len(fr.outputs) :
         ScaleLen(i) = FloorHalvedPlusOne(L0, i - 1)
    /\ (~Raised /\ Len(fr.outputs) >= 1) =>
         /\ fr.x.shape[3] = FloorHalvedPlusOne(L0, Len(fr.outputs))
         /\ fr.y.shape[3] = fr.x.shape[3]
    /\ \A i \in 1..(Len(fr.outputs) - 1) :
         /\ ScaleLen(i + 1) = ScaleLen(i) \div 2 + 1
         /\ ScaleLen(i) > 2 => ScaleLen(i + 1) < ScaleLen(i)
         /\ ScaleLen(i) <= 2 => ScaleLen(i + 1) = ScaleLen(i)

C6_Witness ==
  /\ DefaultPoolWellShaped /\ Done
  /\ L0 = 4
  /\ Len(fr.outputs) >= 2
  /\ ScaleLen(2) = 3

----------------------------------------------------------------------------
(* C7 *)

\* C7: in MSGDiscriminator(nf, n_layers, hidden_dim) layer_k takes nf*2^(k-1)
\* spec channels and emits nf*2^k, every layer takes and emits hidden_dim
\* conditioning channels, disc_spec takes nf*2^n_layers and disc_cond takes
\* hidden_dim; so on x (B, nf, L) and y (B, hidden_dim, L) the forward pass
\* never raises, the k-th feature is (B, nf*2^k, L), the conditioning stream
\* stays (B, hidden_dim, L), and the returned score is (B, L).
C7_MSGChannels ==
  prog = "MSGDiscriminator" =>
    /\ Len(net.discriminator) = cfg.n_layers
    /\ \A k \in 1..cfg.n_layers :
         LET d == net.discriminator[k]
         IN  /\ d.input_spec.in_channels = cfg.nf * Pow2(k - 1)
             /\ d.input_spec.out_channels = cfg.nf * Pow2(k)
             /\ d.output_spec.out_channels = cfg.nf * Pow2(k)
             /\ d.input_cond.in_channels = cfg.hidden_dim
             /\ d.output_cond.out_channels = cfg.hidden_dim
    /\ net.disc_spec.in_channels = cfg.nf * Pow2(cfg.n_layers)
    /\ net.disc_cond.in_channels = cfg.hidden_dim
    /\ WellShaped2(cfg.nf, cfg.hidden_dim) =>
         /\ ~Raised
         /\ \A k \in 1..Len(fr.features) :
              k <= cfg.n_layers =>
                ShapeIs(fr.features[k], B0, cfg.nf * Pow2(k), L0)
         /\ ShapeIs(fr.y, B0, cfg.hidden_dim, L0)
         /\ Done =>
              /\ Len(fr.ret.items[1]) = cfg.n_layers
              /\ \A k \in 1..cfg.n_layers :
                   ShapeIs(fr.ret.items[1][k], B0, cfg.nf * Pow2(k), L0)
              /\ fr.ret.items[2].shape = <<B0, L0>>

C7_Witness ==
  /\ prog = "MSGDiscriminator" /\ Done
  /\ WellShaped2(cfg.nf, cfg.hidden_dim)
  /\ cfg.n_layers >= 2
  /\ B0 > 1 /\ L0 > 1
  /\ fr.ret.items[1][2].shape[2] = 4 * cfg.nf

----------------------------------------------------------------------------
(* C8 *)

\* C8 (as claimed): the __main__ script runs to its end without raising: it
\* prints x.shape, the shape of out, and the parameter count.
C8_MainCompletes ==
  (prog = "main" /\ Terminal) =>
    /\ Done
    /\ Len(fr.printed) = 3

----------------------------------------------------------------------------
(* C9 *)

\* every layer is configured for the channels its predecessor produces
ChannelCompatible(layers, input_dim) ==
  /\ layers[1].conv.in_channels = input_dim
  /\ \A k \in 2..Len(layers) :
       layers[k].conv.in_channels = layers[k - 1].conv.out_channels

\* C9: in MelGANDiscriminator(input_dim, ndf, n_layers, disc_out) the strided
\* layers layer_1 .. layer_{n_layers} are all ndf -> ndf, and the last two
\* layers are both built for min(2*ndf, disc_out) input channels, so the
\* chain is channel compatible exactly when disc_out = ndf; accordingly, on
\* x (B, input_dim, L) with L >= 3, forward returns exactly when
\* disc_out = ndf and raises otherwise.
C9_MelGANCompatibleIff ==
  prog = "MelGANDiscriminator" =>
    LET layers == net.discriminator
        n == cfg.n_layers
    IN  /\ Len(layers) = n + 3
        /\ \A k \in 2..(n + 1) :
             /\ layers[k].conv.in_channels = cfg.ndf
             /\ layers[k].conv.out_channels = cfg.ndf
        /\ layers[n + 2].conv.in_channels = Min(2 * cfg.ndf, cfg.disc_out)
        /\ layers[n + 3].conv.in_channels = Min(2 * cfg.ndf, cfg.disc_out)
        /\ layers[n + 2].conv.out_channels = cfg.disc_out
        /\ ChannelCompatible(layers, cfg.input_dim) <=> cfg.disc_out = cfg.ndf
        /\ (args[1].shape[2] = cfg.input_dim /\ L0 >= 3) =>
             /\ Done => cfg.disc_out = cfg.ndf
             /\ Raised => cfg.disc_out # cfg.ndf
             /\ Raised => Len(fr.features) = n + 1

C9_Witness ==
  /\ prog = "MelGANDiscriminator" /\ Done
  /\ cfg.n_layers >= 2
  /\ cfg.disc_out = cfg.ndf /\ cfg.ndf > 1
  /\ args[1].shape[2] = cfg.input_dim /\ L0 >= 3
  /\ Len(fr.ret.items[1]) = cfg.n_layers + 2

----------------------------------------------------------------------------
(* C10 *)

Unmodified(t) == Version(t) = 0

\* C10: the in-place activations touch nothing that is read afterwards.  In
\* Dblock.forward the caller's spec and cond are never modified; x read x1
\* and y1 as the convolutions produced them; x1 is never modified, so the
\* returned sums read the unactivated x1 and the caller's cond; only x and
\* y1 are activated, once each, and only the convolution that follows reads
\* them activated.  In MSGDiscriminator.forward and
\* MultiMSGDiscriminator.forward the caller's tensors and every tensor in a
\* features or outputs list are unmodified at every step.
C10_InPlaceFrame ==
  /\ prog = "Dblock" =>
       /\ \A i \in 1..Len(args) : Unmodified(args[i])
       /\ Assigned(fr.x1) => Unmodified(fr.x1)
       /\ Assigned(fr.x) =>
            Reads(fr.x) = <<(<<fr.x1.buf, 0>>), (<<fr.y1.buf, 0>>)>>
       /\ Assigned(fr.out1) =>
            /\ Reads(fr.out1) = <<(<<fr.x.buf, 1>>)>>
            /\ Version(fr.x) = 1
       /\ Assigned(fr.out2) =>
            /\ Reads(fr.out2) = <<(<<fr.y1.buf, 1>>)>>
            /\ Version(fr.y1) = 1
       /\ Done =>
            /\ Reads(fr.ret.items[1]) = <<(<<fr.out1.buf, 0>>), (<<fr.x1.buf, 0>>)>>
            /\ Reads(fr.ret.items[2]) = <<(<<fr.out2.buf, 0>>), (<<fr.cond.buf, 0>>)>>
            /\ fr.cond = args[2] /\ fr.spec = args[1]
  /\ prog = "MSGDiscriminator" =>
       /\ \A i \in 1..Len(args) : Unmodified(args[i])
       /\ \A i \in 1..Len(fr.features) : Unmodified(fr.features[i])
  /\ prog = "MultiMSGDiscriminator" =>
       /\ \A i \in 1..Len(args) : Unmodified(args[i])
       /\ \A i \in 1..Len(fr.outputs) : Unmodified(fr.outputs[i])
       /\ \A i \in 1..Len(fr.features) :
            \A j \in 1..Len(fr.features[i]) : Unmodified(fr.features[i][j])

C10_Witness ==
  /\ prog = "Dblock" /\ Done
  /\ Version(fr.x) = 1 /\ Version(fr.y1) = 1
  /\ Unmodified(fr.x1)
  /\ args[1] = args[2]

====
